---- MODULE Spec2Model ----
(***************************************************************************)
(* Model of the dashboard client (src/frontend/dashboard.js): the task     *)
(* mapping `tasks`, the card grid, the detail modal, the snapshot loader   *)
(* fetchTasks and the push handler handleWsMessage.                        *)
(***************************************************************************)
EXTENDS Integers, Sequences, FiniteSets, TLC

VARIABLES
    tasks,          \* dashboard.js:17   let tasks = {}  (own properties only)
    grid,           \* #tasks-grid: the task cards, first child first
    emptyState,     \* #tasks-grid holds the .empty-state placeholder
    activeTaskId,   \* dashboard.js:16   let activeTaskId = null
    modalStatus,    \* #modal-status text
    consoleOutput,  \* #console-output: the lines shown
    resultJson,     \* #result-area: Hidden, or the result shown in #result-json
    modalHidden,    \* #task-modal carries the class 'hidden'
    closeTimers,    \* pending cleanup timers of closeModal (line 159)
    wsConnecting,   \* WebSocket objects that are connecting
    wsOpen,         \* WebSocket objects that are open
    reconnectTimers,\* pending setTimeout(connectWebSocket, ...): the delay of each
    connectionStatus, \* #connection-status text
    failures,       \* connections closed in a row without having opened
    fetching,       \* number of fetchTasks() calls suspended at an await
    loaded,         \* line 37 of fetchTasks has run at least once
    now,            \* the clock read by new Date()
    inbox,          \* frames the server has sent on the push connection, in order
    pos             \* index of the next frame of inbox to be delivered

storeVars == <<tasks, grid, emptyState>>
modalVars == <<activeTaskId, modalStatus, consoleOutput, resultJson, modalHidden,
               closeTimers>>
connVars == <<wsConnecting, wsOpen, reconnectTimers, connectionStatus, failures>>
vars == <<tasks, grid, emptyState, activeTaskId, modalStatus, consoleOutput,
          resultJson, modalHidden, closeTimers, wsConnecting, wsOpen,
          reconnectTimers, connectionStatus, failures, fetching, loaded, now,
          inbox, pos>>

-----------------------------------------------------------------------------
\* Bounds of the model.
MaxLogs == 1        \* log lines kept per record
MaxCards == 2       \* cards in the grid
MaxClock == 1       \* clock readings 0..MaxClock
MaxFetches == 2     \* fetchTasks() calls in flight at once
MaxRunLogs == 3     \* Log frames in a Start, Log*, Complete run
MaxConsole == 2     \* lines in the console of the detail view

\* JavaScript null and undefined, and the hidden result area.
Null == "null"
Undefined == "undefined"
Hidden == "hidden"
\* The text #connection-status has before any socket event.
InitialStatus == "initial"

\* The identifier the server runs a task under, and an identifier it only ever
\* mentions in log and complete frames (no start frame, no snapshot entry).
TaskIds == {"t1"}
StrayIds == {"t9"}
\* A property name every object inherits from Object.prototype: tasks[k] is
\* truthy for it although the mapping has no such own property.
ProtoKeys == {"constructor"}
Personas == {"shopper", "rider"}
Msgs == {"m1", "m2"}
Results == {Null, "r1", "r2"}
Terminal == {"success", "failed"}

-----------------------------------------------------------------------------
\* The frames of the push connection after JSON.parse and the destructuring of
\* line 224: an absent field reads as undefined.
StartEvents ==
    [type : {"start"}, task_id : TaskIds, persona : Personas,
     message : {Undefined}, status : {Undefined}, result : {Undefined}]
LogEvents ==
    [type : {"log"}, task_id : TaskIds \cup StrayIds \cup ProtoKeys, persona : {Undefined},
     message : Msgs, status : {Undefined}, result : {Undefined}]
CompleteEvents ==
    [type : {"complete"}, task_id : TaskIds \cup StrayIds \cup ProtoKeys, persona : {Undefined},
     message : {Undefined}, status : Terminal, result : Results]
\* A frame none of the three shapes fits: text that is no JSON; JSON with an
\* unknown type and no task_id (also {} or a number); a log frame without
\* message; a complete frame without status.
NotJson == "not json"
MalformedEvents ==
    { [type |-> NotJson, task_id |-> Undefined, persona |-> Undefined,
       message |-> Undefined, status |-> Undefined, result |-> Undefined],
      [type |-> "ping", task_id |-> Undefined, persona |-> Undefined,
       message |-> Undefined, status |-> Undefined, result |-> Undefined] }
    \cup [type : {"log", "complete"}, task_id : TaskIds, persona : {Undefined},
          message : {Undefined}, status : {Undefined}, result : {Undefined}]

\* The frames that refer to a task without introducing it.
UpdateEvents == LogEvents \cup CompleteEvents
Events == StartEvents \cup UpdateEvents

\* payload: {} and the fields getTaskSummary reads from a payload; a field the
\* object lacks reads as undefined.
PayloadFields == {"product", "drop", "medicine", "event_name", "food_item"}
EmptyObject == [f \in PayloadFields |-> Undefined]
\* A payload is << >> when the record has none (undefined or null) and <<o>>
\* when it is the object o.
NoPayload == << >>
EmptyPayload == <<EmptyObject>>

\* A record as GET /tasks returns it.
ServerTask(id, persona, status, logs, result) ==
    [id |-> id, persona |-> persona, status |-> status, created_at |-> 0,
     logs |-> logs, result |-> result, payload |-> EmptyPayload]

\* The bodies GET /tasks answers with; any of them may answer any request.
Snapshots ==
    { <<>>,
      <<ServerTask("t1", "shopper", "running", <<>>, Null)>>,
      <<ServerTask("t1", "shopper", "success", <<"m1">>, "r1")>>,
      <<ServerTask("t1", "rider", "failed", <<>>, "r2")>> }

-----------------------------------------------------------------------------
\* let tasks = {}
EmptyStore == [k \in {} |-> Null]

\* tasks = { [id]: task }: the mapping replaced instead of the entry.
PutAlone(t, id, task) == [k \in {id} |-> task]

\* tasks[id] = task on a plain object.
Put(t, id, task) == [k \in DOMAIN t \cup {id} |-> IF k = id THEN task ELSE t[k]]

\* The truthiness of tasks[id]: own properties and inherited ones.
Truthy(t, id) == id \in DOMAIN t \/ id \in ProtoKeys

\* document.getElementById(`card-${taskId}`): the first card in document order,
\* 0 when there is none.
CardIndex(g, id) ==
    IF \E i \in 1..Len(g) : g[i].id = id
    THEN CHOOSE i \in 1..Len(g) :
             g[i].id = id /\ \A j \in 1..(i - 1) : g[j].id # id
    ELSE 0

\* status.toUpperCase()
ToUpperCase(s) ==
    CASE s = "pending" -> "PENDING"
      [] s = "running" -> "RUNNING"
      [] s = "success" -> "SUCCESS"
      [] s = "failed" -> "FAILED"
      [] OTHER -> s

\* The values JavaScript's || skips: undefined, null and the empty string.
Falsy(v) == v \in {Undefined, Null, ""}

\* a || b
OrElse(a, b) == IF Falsy(a) THEN b ELSE a

\* The if chain with the rider line testing 'driver', a persona no task has.
GetTaskSummaryNoRider(task) ==
    LET p == IF task.payload = NoPayload THEN EmptyObject ELSE task.payload[1] IN
    CASE task.persona = "shopper" -> <<"Finding ", OrElse(p.product, "items")>>
      [] task.persona = "driver" -> <<"Ride to ", OrElse(p.drop, "destination")>>
      [] task.persona = "patient" -> <<"Meds: ", OrElse(p.medicine, "Prescription")>>
      [] task.persona = "coordinator" -> <<"Event: ", OrElse(p.event_name, "Party")>>
      [] task.persona = "foodie" -> <<"Order: ", OrElse(p.food_item, "Food")>>
      [] OTHER -> <<"Execution in progress...">>

\* getTaskSummary(task): a template literal is the pair of its text and the
\* value spliced into it.
GetTaskSummary(task) ==
    LET p == IF task.payload = NoPayload THEN EmptyObject ELSE task.payload[1] IN
    CASE task.persona = "shopper" -> <<"Finding ", OrElse(p.product, "items")>>
      [] task.persona = "rider" -> <<"Ride to ", OrElse(p.drop, "destination")>>
      [] task.persona = "patient" -> <<"Meds: ", OrElse(p.medicine, "Prescription")>>
      [] task.persona = "coordinator" -> <<"Event: ", OrElse(p.event_name, "Party")>>
      [] task.persona = "foodie" -> <<"Order: ", OrElse(p.food_item, "Food")>>
      [] OTHER -> <<"Execution in progress...">>

\* createTaskCard: the card carries the status as its class (status) and as
\* the text of its badge, and the summary line; tasksGrid.prepend(card).
CreateTaskCard(g, task) ==
    <<[id |-> task.id, status |-> task.status, badge |-> ToUpperCase(task.status),
       info |-> GetTaskSummary(task)]>> \o g

\* The object literal of the start branch.
NewTask(ev) ==
    [id |-> ev.task_id, persona |-> ev.persona, status |-> "running",
     created_at |-> now, logs |-> <<>>, result |-> Null, payload |-> EmptyPayload]

\* The line written with unshift instead of push.
PushLogFront(logs, message) == <<message>> \o logs

\* tasks[task_id].logs.push(message)
PushLog(logs, message) == Append(logs, message)

\* The branch creating a placeholder record, as its comment considers.
MissedStartPlaceholder(t, ev) ==
    Put(t, ev.task_id,
        [id |-> ev.task_id, persona |-> Undefined, status |-> "running",
         created_at |-> now, logs |-> << >>, result |-> Null,
         payload |-> EmptyPayload])

\* The mapping after the branch that finds no record for a log/complete frame.
MissedStart(t, ev) == t

\* A default parameter replaces undefined, not null.
DefaultNull(v) == IF v = Undefined THEN Null ELSE v

\* The assignments of updateTaskCard to the record.
SetOutcome(task, status, result) ==
    [task EXCEPT !.status = status, !.result = result]

-----------------------------------------------------------------------------
Init ==
    /\ tasks = EmptyStore
    /\ grid = << >>
    /\ emptyState = FALSE
    /\ activeTaskId = Null
    /\ modalStatus = Null
    /\ consoleOutput = << >>
    /\ resultJson = Hidden
    /\ modalHidden = TRUE
    /\ closeTimers = 0
    /\ wsConnecting = 1
    /\ wsOpen = 0
    /\ reconnectTimers = << >>
    /\ connectionStatus = InitialStatus
    /\ failures = 0
    /\ fetching = 1
    /\ loaded = FALSE
    /\ now = 0
    /\ inbox = << >>
    /\ pos = 1

\* data.forEach(task => { tasks[task.id] = task; ... }), the mapping it builds.
RECURSIVE LoadTasks(_, _)
LoadTasks(t, data) ==
    IF data = << >> THEN t
    ELSE LoadTasks(Put(t, Head(data).id, Head(data)), Tail(data))

\* data.forEach(task => { ...; createTaskCard(task) }), the grid it builds.
RECURSIVE LoadCards(_, _)
LoadCards(g, data) ==
    IF data = << >> THEN g
    ELSE LoadCards(CreateTaskCard(g, Head(data)), Tail(data))

-----------------------------------------------------------------------------
\* fetchTasks() up to its first await: the request is issued and the caller
\* continues.
FetchTasks == fetching' = fetching + 1

\* fetchTasks() with the line tasks = {} left out: the answer is merged into
\* the mapping.
FetchTasksMerge(data) ==
    /\ fetching > 0
    /\ fetching' = fetching - 1
    /\ tasks' = LoadTasks(tasks, data)
    /\ grid' = LoadCards(<< >>, data)
    /\ emptyState' = (Len(data) = 0)
    /\ loaded' = TRUE
    /\ UNCHANGED modalVars

\* fetchTasks() resumes with an array: lines 36-47 run in one turn of the
\* event loop.
FetchTasksArray(data) ==
    /\ fetching > 0
    /\ fetching' = fetching - 1
    /\ tasks' = LoadTasks(EmptyStore, data)
    /\ grid' = LoadCards(<< >>, data)
    /\ emptyState' = (Len(data) = 0)
    /\ loaded' = TRUE
    /\ UNCHANGED modalVars

\* fetchTasks() resumes with JSON that is no array (an error object of a
\* non-success response): lines 36-37 clear the grid and the mapping, then
\* data.forEach throws and line 48 catches it.
FetchTasksNotArray ==
    /\ fetching > 0
    /\ fetching' = fetching - 1
    /\ tasks' = EmptyStore
    /\ grid' = << >>
    /\ emptyState' = FALSE
    /\ loaded' = TRUE
    /\ UNCHANGED modalVars

\* fetch() or response.json() rejects: control goes to the catch of line 48.
FetchTasksRejected ==
    /\ fetching > 0
    /\ fetching' = fetching - 1
    /\ UNCHANGED <<storeVars, modalVars, loaded>>

\* updateTaskCard(taskId, status, result = null)
UpdateTaskCard(taskId, status, result) ==
    LET i == CardIndex(grid, taskId) IN
    IF i = 0
    THEN UNCHANGED <<storeVars, modalVars>>
    ELSE IF status = Undefined
    THEN \* lines 103-105 restyle the card, then status.toUpperCase() throws a
         \* TypeError that ws.onmessage catches
         /\ grid' = [grid EXCEPT ![i].status = status]
         /\ UNCHANGED <<tasks, emptyState, modalVars>>
    ELSE /\ grid' = [grid EXCEPT ![i].status = status,
                                 ![i].badge = ToUpperCase(status)]
         /\ tasks' = IF taskId \in DOMAIN tasks
                     THEN [tasks EXCEPT ![taskId] = SetOutcome(@, status, result)]
                     ELSE tasks
         /\ IF activeTaskId = taskId
            THEN /\ modalStatus' = ToUpperCase(status)
                 /\ resultJson' = IF status \in Terminal THEN result ELSE resultJson
            ELSE UNCHANGED <<modalStatus, resultJson>>
         /\ UNCHANGED <<emptyState, activeTaskId, consoleOutput, modalHidden,
                        closeTimers>>

\* handleWsMessage(payload), called from ws.onmessage inside try/catch.
HandleWsMessage(ev) ==
    LET id == ev.task_id
        isStart == ev.type = "start"
        t1 == IF isStart THEN Put(tasks, id, NewTask(ev)) ELSE tasks
        g1 == IF isStart THEN CreateTaskCard(grid, NewTask(ev)) ELSE grid
        e1 == IF isStart THEN FALSE ELSE emptyState
    IN
    IF ~Truthy(t1, id) /\ ~isStart
    THEN \* lines 243-247
         /\ tasks' = MissedStart(t1, ev)
         /\ FetchTasks
         /\ UNCHANGED <<grid, emptyState, modalVars, loaded>>
    ELSE
      /\ UNCHANGED <<fetching, loaded>>
      /\ CASE ev.type = "log" ->
                IF id \in DOMAIN t1
                THEN /\ tasks' = [t1 EXCEPT ![id].logs = PushLog(@, ev.message)]
                     /\ consoleOutput' =
                            \* appendLog: message.includes throws on undefined
                            IF activeTaskId = id /\ ev.message # Undefined
                            THEN Append(consoleOutput, ev.message)
                            ELSE consoleOutput
                     /\ UNCHANGED <<grid, emptyState, activeTaskId, modalStatus,
                                    resultJson, modalHidden, closeTimers>>
                ELSE \* tasks[task_id] is inherited and has no logs: push
                     \* throws a TypeError, caught at line 209
                     UNCHANGED <<storeVars, modalVars>>
           [] ev.type = "complete" ->
                UpdateTaskCard(id, ev.status, DefaultNull(ev.result))
           [] OTHER ->
                /\ tasks' = t1
                /\ grid' = g1
                /\ emptyState' = e1
                /\ UNCHANGED modalVars

\* ws.onmessage: JSON.parse and handleWsMessage in one try/catch, one turn of
\* the event loop.
OnMessage(ev) ==
    /\ IF ev.type = NotJson
       THEN \* JSON.parse throws (text that is no JSON), or the destructuring of
            \* line 224 throws (the JSON value null)
            UNCHANGED <<storeVars, modalVars, fetching, loaded>>
       ELSE HandleWsMessage(ev)
    /\ UNCHANGED <<now, connVars>>

-----------------------------------------------------------------------------
\* The frames the server may send, within the bounds of the model.
InBounds(ev) ==
    /\ ev.type = "start" => Len(grid) < MaxCards
    /\ ev.type = "log" /\ ev.task_id \in DOMAIN tasks =>
           Len(tasks[ev.task_id].logs) < MaxLogs
    /\ ev.type # "start" /\ ~Truthy(tasks, ev.task_id) => fetching < MaxFetches
    /\ ev.type = "log" /\ ev.task_id = activeTaskId =>
           Len(consoleOutput) < MaxConsole

\* ws.onmessage for a start frame.
WsStart ==
    /\ wsOpen > 0
    /\ \E ev \in StartEvents :
           InBounds(ev) /\ OnMessage(ev) /\ UNCHANGED <<inbox, pos>>

\* ws.onmessage for a log frame.
WsLog ==
    /\ wsOpen > 0
    /\ \E ev \in LogEvents :
           InBounds(ev) /\ OnMessage(ev) /\ UNCHANGED <<inbox, pos>>

\* ws.onmessage for a complete frame.
WsComplete ==
    /\ wsOpen > 0
    /\ \E ev \in CompleteEvents :
           InBounds(ev) /\ OnMessage(ev) /\ UNCHANGED <<inbox, pos>>

\* ws.onopen: the indicator shows the live state.
WsOnOpen ==
    /\ wsConnecting > 0
    /\ wsConnecting' = wsConnecting - 1
    /\ wsOpen' = wsOpen + 1
    /\ connectionStatus' = "Live Uplink"
    /\ failures' = 0
    /\ UNCHANGED <<storeVars, modalVars, reconnectTimers, fetching, loaded, now,
                   inbox, pos>>

\* A pending GET /tasks is answered with an array of tasks.
SnapshotLands ==
    \E data \in Snapshots :
        FetchTasksArray(data) /\ UNCHANGED <<now, inbox, pos, connVars>>

\* A pending GET /tasks is answered with JSON that is no array.
SnapshotNotArray == FetchTasksNotArray /\ UNCHANGED <<now, inbox, pos, connVars>>

\* A pending GET /tasks fails.
SnapshotFails == FetchTasksRejected /\ UNCHANGED <<now, inbox, pos, connVars>>

\* Time passes between two callbacks.
Tick ==
    /\ now < MaxClock
    /\ now' = now + 1
    /\ UNCHANGED <<storeVars, modalVars, connVars, fetching, loaded, inbox, pos>>

Next ==
    \/ WsOnOpen
    \/ WsStart
    \/ WsLog
    \/ WsComplete
    \/ SnapshotLands
    \/ SnapshotNotArray
    \/ SnapshotFails
    \/ Tick

Spec == Init /\ [][Next]_vars

-----------------------------------------------------------------------------
\* ws.onmessage for a frame that fits none of the three shapes.
WsMalformed ==
    /\ wsOpen > 0
    /\ \E ev \in MalformedEvents :
           InBounds(ev) /\ OnMessage(ev) /\ UNCHANGED <<inbox, pos>>

NextFrames ==
    \/ Next
    \/ WsMalformed

\* The dashboard on a connection that also carries malformed frames.
SpecFrames == Init /\ [][NextFrames]_vars

-----------------------------------------------------------------------------
\* The runs Start, Log*, Complete for one identifier.
LogRuns(id) ==
    UNION { [1..n -> {ev \in LogEvents : ev.task_id = id}] : n \in 0..MaxRunLogs }

Runs ==
    { <<s>> \o logs \o <<c>> :
        s \in StartEvents,
        logs \in UNION { LogRuns(id) : id \in TaskIds },
        c \in CompleteEvents }

WellFormedRun(run) ==
    \A i \in 1..Len(run) : run[i].task_id = run[1].task_id

\* The store is initialized and empty (GET /tasks has answered []), no fetch is
\* in flight, and the server sends one run.
InitRun ==
    /\ tasks = EmptyStore
    /\ grid = << >>
    /\ emptyState = TRUE
    /\ activeTaskId = Null
    /\ modalStatus = Null
    /\ consoleOutput = << >>
    /\ resultJson = Hidden
    /\ modalHidden = TRUE
    /\ closeTimers = 0
    /\ wsConnecting = 0
    /\ wsOpen = 1
    /\ reconnectTimers = << >>
    /\ connectionStatus = "Live Uplink"
    /\ failures = 0
    /\ fetching = 0
    /\ loaded = TRUE
    /\ now = 0
    /\ inbox \in {run \in Runs : WellFormedRun(run)}
    /\ pos = 1

\* ws.onmessage for the next frame of the run.
Deliver ==
    /\ pos <= Len(inbox)
    /\ OnMessage(inbox[pos])
    /\ pos' = pos + 1
    /\ UNCHANGED inbox

NextRun ==
    \/ Deliver
    \/ Tick

SpecRun == InitRun /\ [][NextRun]_vars

-----------------------------------------------------------------------------
IsPrefix(a, b) == Len(a) <= Len(b) /\ \A i \in 1..Len(a) : a[i] = b[i]

\* C1: once a task's status is success or failed, a Complete event for its
\* identifier leaves the task's record in the store as it was.
TerminalImmutable ==
    [][\A ev \in CompleteEvents :
          ( /\ ev.task_id \in DOMAIN tasks
            /\ tasks[ev.task_id].status \in Terminal
            /\ OnMessage(ev) )
          => /\ ev.task_id \in DOMAIN tasks'
             /\ tasks'[ev.task_id] = tasks[ev.task_id]]_vars

\* C2: applying a Start event again, to a store whose record for the identifier
\* carries the persona of that Start, leaves the record's identifier, persona
\* and created_at unchanged.
StartIdempotent ==
    [][\A ev \in StartEvents :
          ( /\ ev.task_id \in DOMAIN tasks
            /\ tasks[ev.task_id].persona = ev.persona
            /\ OnMessage(ev) )
          => /\ tasks'[ev.task_id].id = tasks[ev.task_id].id
             /\ tasks'[ev.task_id].persona = tasks[ev.task_id].persona
             /\ tasks'[ev.task_id].created_at = tasks[ev.task_id].created_at]_vars

\* C3: under every push event, a task whose status is success or failed does
\* not have status pending or running afterwards.
StatusMonotonic ==
    [][\A ev \in Events : \A id \in DOMAIN tasks :
          (tasks[id].status \in Terminal /\ OnMessage(ev))
          => (id \in DOMAIN tasks' => tasks'[id].status \in Terminal)]_vars

\* C4: until the first replace_all of the snapshot loader has run, push events
\* are held back and the store is still the empty mapping it was constructed as.
NoApplyBeforeSnapshot == ~loaded => tasks = EmptyStore

\* C5: after Start, n Log events and Complete for one identifier, delivered to
\* an empty initialized store, the record holds the n messages in arrival order
\* and the status and result of the Complete event.
RunYieldsRecord ==
    pos > Len(inbox) =>
        LET id == inbox[1].task_id
            c == inbox[Len(inbox)]
        IN /\ id \in DOMAIN tasks
           /\ tasks[id].logs = [i \in 1..(Len(inbox) - 2) |-> inbox[i + 1].message]
           /\ tasks[id].status = c.status
           /\ tasks[id].result = c.result

\* C5 witness: a run with two different log lines has been delivered in full.
RunDelivered ==
    /\ pos > Len(inbox)
    /\ Len(inbox) >= 4
    /\ inbox[2].message # inbox[3].message
    /\ inbox[Len(inbox)].result # Null

\* C6: a Log event for a task whose status is success or failed leaves the
\* record (logs, status, result) as it was.
LogAfterTerminalIgnored ==
    [][\A ev \in LogEvents :
          ( /\ ev.task_id \in DOMAIN tasks
            /\ tasks[ev.task_id].status \in Terminal
            /\ OnMessage(ev) )
          => /\ ev.task_id \in DOMAIN tasks'
             /\ tasks'[ev.task_id] = tasks[ev.task_id]]_vars

\* C7: under every push event, the logs of every record of the store are a
\* prefix of that record's logs after the event.
LogsAppendOnly ==
    [][\A ev \in Events :
          OnMessage(ev)
          => \A id \in DOMAIN tasks :
                 /\ id \in DOMAIN tasks'
                 /\ IsPrefix(tasks[id].logs, tasks'[id].logs)]_vars

\* C8: a record's result is null unless its status is success or failed, and a
\* result that is set is not changed by any later push event.
ResultSetOnce ==
    [][ /\ \A id \in DOMAIN tasks' :
              tasks'[id].result # Null => tasks'[id].status \in Terminal
        /\ \A ev \in Events : \A id \in DOMAIN tasks :
              (tasks[id].result # Null /\ OnMessage(ev))
              => (id \in DOMAIN tasks' /\ tasks'[id].result = tasks[id].result)
      ]_vars

\* C9: a Log or Complete event whose identifier is not in the store leaves the
\* mapping exactly as it was when the handler returns (in no reachable state
\* can such an event be handled with the mapping changed).
UnknownEventKeepsMapping ==
    \A ev \in UpdateEvents :
        ev.task_id \notin DOMAIN tasks =>
            ~ENABLED ( /\ OnMessage(ev)
                       /\ UNCHANGED <<inbox, pos>>
                       /\ tasks' # tasks )

\* C9 witness: a reload was triggered by a frame for an unknown identifier
\* while the store held a record, and the store still holds only that record.
ReloadPendingStoreKept ==
    /\ fetching > 1
    /\ DOMAIN tasks = TaskIds
    /\ \A id \in TaskIds : tasks[id].logs # << >>

\* C10: once the store is initialized, the handling of any Log or Complete
\* event whose identifier is not in the store issues exactly one snapshot fetch
\* (no such event can be handled with the number of fetches in flight not
\* going up by one).
UnknownEventFetchesOnce ==
    \A ev \in UpdateEvents :
        (loaded /\ ev.task_id \notin DOMAIN tasks) =>
            ~ENABLED ( /\ OnMessage(ev)
                       /\ UNCHANGED <<inbox, pos>>
                       /\ fetching' # fetching + 1 )

\* C11: a snapshot fetch that fails (fetch() or response.json() rejects, or the
\* body is no array of tasks) leaves the task store exactly as it was.
FailedFetchKeepsStore ==
    [][(FetchTasksRejected \/ FetchTasksNotArray) => tasks' = tasks]_vars

\* C12: a frame that fits none of the shapes start/log/complete leaves the
\* task store and the cards unchanged and triggers no snapshot reload (on an
\* open connection no such frame can be handled with any of them changed).
MalformedDiscarded ==
    \A ev \in MalformedEvents :
        wsOpen > 0 =>
            ~ENABLED ( /\ OnMessage(ev)
                       /\ UNCHANGED <<inbox, pos>>
                       /\ \/ tasks' # tasks
                          \/ grid' # grid
                          \/ fetching' # fetching )

\* C20: a step that removes an identifier from the mapping is a snapshot
\* reload that landed with a task set.
RemovedOnlyBySnapshot ==
    [][(\E id \in DOMAIN tasks : id \notin DOMAIN tasks')
          => \E data \in Snapshots : FetchTasksArray(data)]_vars

\* C17: after any event handler has returned, normally or by a caught
\* exception, the card that getElementById finds for a task carries the status
\* of the task's record, as its class and as the text of its badge.
CardShowsStoreStatus ==
    \A id \in DOMAIN tasks :
        LET i == CardIndex(grid, id) IN
        i # 0 => /\ grid[i].status = tasks[id].status
                 /\ grid[i].badge = ToUpperCase(tasks[id].status)

-----------------------------------------------------------------------------
\* The personas getTaskSummary knows.
KnownPersonas == {"shopper", "rider", "patient", "coordinator", "foodie"}

\* The values a field of a payload may hold: missing, the empty string, a text.
FieldValues == {Undefined, "", "x1"}

\* The payloads of a task record: none, or an object with any of the fields.
SummaryPayloads ==
    {NoPayload} \cup { <<o>> : o \in [PayloadFields -> FieldValues] }

\* The task records GET /tasks may return for one identifier.
SummaryTasks ==
    { [id |-> id, persona |-> persona, status |-> "running", created_at |-> 0,
       logs |-> << >>, result |-> Null, payload |-> payload] :
        id \in TaskIds,
        persona \in KnownPersonas \cup {"other", Undefined},
        payload \in SummaryPayloads }

\* The page before its first GET /tasks answers; the answer, a list of one
\* task, is held in inbox, and the list is fetched twice.
InitSummary ==
    /\ tasks = EmptyStore
    /\ grid = << >>
    /\ emptyState = FALSE
    /\ activeTaskId = Null
    /\ modalStatus = Null
    /\ consoleOutput = << >>
    /\ resultJson = Hidden
    /\ modalHidden = TRUE
    /\ closeTimers = 0
    /\ wsConnecting = 1
    /\ wsOpen = 0
    /\ reconnectTimers = << >>
    /\ connectionStatus = InitialStatus
    /\ failures = 0
    /\ fetching = 2
    /\ loaded = FALSE
    /\ now = 0
    /\ inbox \in { <<task>> : task \in SummaryTasks }
    /\ pos = 1

\* A pending GET /tasks is answered with the list: createTaskCard calls
\* getTaskSummary for the task.
SummaryLands ==
    /\ FetchTasksArray(inbox)
    /\ UNCHANGED <<now, inbox, pos, connVars>>

NextSummary ==
    \/ SummaryLands
    \/ WsOnOpen

SpecSummary == InitSummary /\ [][NextSummary]_vars

\* The persona -> field-selection table: the text before the field, the field,
\* and the persona's placeholder.
SummaryTable ==
    [persona \in KnownPersonas |->
        CASE persona = "shopper" -> <<"Finding ", "product", "items">>
          [] persona = "rider" -> <<"Ride to ", "drop", "destination">>
          [] persona = "patient" -> <<"Meds: ", "medicine", "Prescription">>
          [] persona = "coordinator" -> <<"Event: ", "event_name", "Party">>
          [] persona = "foodie" -> <<"Order: ", "food_item", "Food">>]

\* The value the table's field has in a task's payload.
SelectedField(task) ==
    IF task.payload = NoPayload THEN Undefined
    ELSE task.payload[1][SummaryTable[task.persona][2]]

\* C18 as stated: the summary on a task's card is the text built from the
\* persona's field whenever the field is present, the persona's placeholder
\* when the field or the payload is absent, the neutral placeholder for any
\* other persona, and the record is left as it was.
SummaryFromPresentField ==
    \A i \in 1..Len(grid) :
        LET task == inbox[1] IN
        /\ tasks[grid[i].id] = task
        /\ IF task.persona \in KnownPersonas
           THEN grid[i].info =
                    <<SummaryTable[task.persona][1],
                      IF SelectedField(task) # Undefined
                      THEN SelectedField(task)
                      ELSE SummaryTable[task.persona][3]>>
           ELSE grid[i].info = <<"Execution in progress...">>

\* C18, amended: the summary on a task's card is the text built from the
\* persona's field when the field holds a non-empty value, the persona's
\* placeholder when the field is absent or empty or the payload is absent, the
\* neutral placeholder for any other persona; the record is left as it was and
\* a second call gives the same summary.
SummaryFromNonEmptyField ==
    \A i \in 1..Len(grid) :
        LET task == inbox[1] IN
        /\ tasks[grid[i].id] = task
        /\ IF task.persona \in KnownPersonas
           THEN grid[i].info =
                    <<SummaryTable[task.persona][1],
                      IF SelectedField(task) \notin {Undefined, Null, ""}
                      THEN SelectedField(task)
                      ELSE SummaryTable[task.persona][3]>>
           ELSE grid[i].info = <<"Execution in progress...">>

\* The list has been rendered twice for a rider whose drop is the empty
\* string, and the card shows the placeholder.
EmptyFieldSummarized ==
    /\ fetching = 0
    /\ Len(grid) = 1
    /\ inbox[1].persona = "rider"
    /\ inbox[1].payload # NoPayload
    /\ inbox[1].payload[1].drop = ""
    /\ grid[1].info = <<"Ride to ", "destination">>

-----------------------------------------------------------------------------
\* The requests GET /tasks in flight, in the order they were issued, each with
\* the array the server answers it with.
Requests ==
    UNION { [1..n -> [data : Snapshots, done : {FALSE}]] : n \in 2..MaxFetches }

\* Several fetches are in flight on an open connection (the one of init and
\* those of frames for unknown identifiers); inbox holds the requests and pos
\* the request answered last.
InitFetch ==
    /\ tasks = EmptyStore
    /\ grid = << >>
    /\ emptyState = FALSE
    /\ activeTaskId = Null
    /\ modalStatus = Null
    /\ consoleOutput = << >>
    /\ resultJson = Hidden
    /\ modalHidden = TRUE
    /\ closeTimers = 0
    /\ wsConnecting = 0
    /\ wsOpen = 1
    /\ reconnectTimers = << >>
    /\ connectionStatus = "Live Uplink"
    /\ failures = 0
    /\ inbox \in Requests
    /\ fetching = Len(inbox)
    /\ loaded = FALSE
    /\ now = 0
    /\ pos = 0

\* Any of the requests in flight is answered: fetchTasks resumes after its
\* awaits and runs lines 36-47 in one turn of the event loop.
FetchCompletes ==
    \E i \in DOMAIN inbox :
        /\ ~inbox[i].done
        /\ FetchTasksArray(inbox[i].data)
        /\ inbox' = [inbox EXCEPT ![i].done = TRUE]
        /\ pos' = i
        /\ UNCHANGED <<now, connVars>>

NextFetch ==
    \/ FetchCompletes
    \/ WsStart
    \/ Tick

SpecFetch == InitFetch /\ [][NextFetch]_vars

\* The mapping from identifiers to records that an array of tasks denotes.
TaskSet(data) ==
    [id \in {data[i].id : i \in DOMAIN data} |->
        data[CHOOSE i \in DOMAIN data :
                 data[i].id = id /\ \A j \in DOMAIN data : j > i => data[j].id # id]]

\* C13: with several fetches in flight, every step that completes one of them
\* (the last to complete included, whatever the order of issue) leaves the
\* store holding exactly the task set that fetch returned, whatever push events
\* had put into it; the replacement is one step.
LastCompletedSnapshotWins ==
    [][inbox' # inbox => tasks' = TaskSet(inbox'[pos'].data)]_vars

\* All fetches have completed, the one issued first completed last, after a
\* later-issued one that returned another set, and the store holds the set of
\* the one issued first.
FirstIssuedCompletedLast ==
    /\ \A i \in DOMAIN inbox : inbox[i].done
    /\ pos = 1
    /\ inbox[1].data # << >>
    /\ inbox[2].data # << >>
    /\ inbox[1].data # inbox[2].data
    /\ tasks = TaskSet(inbox[1].data)

-----------------------------------------------------------------------------
MaxPairLen == 3

\* Two tasks the server runs at the same time.
PairIds == {"t1", "t2"}

\* The start frames of the two tasks, in either order.
PairStarts ==
    { <<[type |-> "start", task_id |-> a, persona |-> "shopper",
         message |-> Undefined, status |-> Undefined, result |-> Undefined],
        [type |-> "start", task_id |-> b, persona |-> "rider",
         message |-> Undefined, status |-> Undefined, result |-> Undefined]>> :
        <<a, b>> \in {pair \in PairIds \X PairIds : pair[1] # pair[2]} }

\* The log and complete frames of the two tasks.
PairEvents ==
    [type : {"log"}, task_id : PairIds, persona : {Undefined},
     message : Msgs, status : {Undefined}, result : {Undefined}]
    \cup [type : {"complete"}, task_id : PairIds, persona : {Undefined},
          message : {Undefined}, status : Terminal, result : {"r1"}]

\* The store is initialized and empty, no fetch is in flight, and the server
\* sends the two start frames and then frames of the two tasks in any order.
InitPair ==
    /\ tasks = EmptyStore
    /\ grid = << >>
    /\ emptyState = TRUE
    /\ activeTaskId = Null
    /\ modalStatus = Null
    /\ consoleOutput = << >>
    /\ resultJson = Hidden
    /\ modalHidden = TRUE
    /\ closeTimers = 0
    /\ wsConnecting = 0
    /\ wsOpen = 1
    /\ reconnectTimers = << >>
    /\ connectionStatus = "Live Uplink"
    /\ failures = 0
    /\ fetching = 0
    /\ loaded = TRUE
    /\ now = 0
    /\ inbox \in { starts \o rest :
                     starts \in PairStarts,
                     rest \in UNION { [1..n -> PairEvents] : n \in 1..MaxPairLen } }
    /\ pos = 1

NextPair ==
    \/ Deliver
    \/ Tick

SpecPair == InitPair /\ [][NextPair]_vars

\* The frames for one identifier among those delivered after the two starts,
\* in their order.
OwnFrames(id) ==
    SelectSeq(SubSeq(inbox, 3, pos - 1), LAMBDA ev : ev.task_id = id)

\* The logs, status and result that a task's own frames alone determine.
OwnLogs(id) ==
    LET ls == SelectSeq(OwnFrames(id), LAMBDA ev : ev.type = "log") IN
    [i \in 1..Len(ls) |-> ls[i].message]
OwnOutcome(id) ==
    LET cs == SelectSeq(OwnFrames(id), LAMBDA ev : ev.type = "complete") IN
    IF cs = << >> THEN <<"running", Null>>
    ELSE <<cs[Len(cs)].status, cs[Len(cs)].result>>

\* C19: once two identifiers are started, the record of each is determined by
\* its own frames in their order (so it is the same for every interleaving
\* with the other's frames), at the end and after every frame on the way (so a
\* frame for one never changes the record of the other).
RecordFromOwnFrames ==
    pos > 2 =>
        \A id \in PairIds :
            /\ id \in DOMAIN tasks
            /\ tasks[id].logs = OwnLogs(id)
            /\ <<tasks[id].status, tasks[id].result>> = OwnOutcome(id)
            /\ tasks[id].persona = inbox[CHOOSE i \in 1..2 : inbox[i].task_id = id].persona

\* Frames of both tasks have been delivered one between the other's: a frame
\* of the first, then one of the second, then one of the first again.
PairInterleaved ==
    /\ pos = Len(inbox) + 1
    /\ Len(inbox) = 5
    /\ inbox[3].task_id = inbox[5].task_id
    /\ inbox[4].task_id # inbox[3].task_id
    /\ inbox[4].type = "complete"
    /\ inbox[5].type = "log"
    /\ tasks[inbox[5].task_id].status = "running"
    /\ tasks[inbox[4].task_id].status \in Terminal

-----------------------------------------------------------------------------
MaxFailures == 2

\* The delay of setTimeout(connectWebSocket, 5000), in milliseconds.
ReconnectDelay == 5000

\* ws.onclose with a retry limit: after one failed attempt no timer is set.
ScheduleReconnectOnce(timers) ==
    IF failures >= 1 THEN timers ELSE Append(timers, ReconnectDelay)

\* A reconnect scheduled from two handlers of the same socket (onerror and
\* onclose): two timers for one loss.
ScheduleReconnectTwice(timers) == timers \o <<ReconnectDelay, ReconnectDelay>>

\* setTimeout(connectWebSocket, 5000): the pending timers, each with the delay
\* it was set with, in the order they will fire.
ScheduleReconnect(timers) == Append(timers, ReconnectDelay)

\* A reconnect timer fires: connectWebSocket() creates a new socket.
ConnectWebSocket ==
    /\ reconnectTimers # << >>
    /\ reconnectTimers' = Tail(reconnectTimers)
    /\ wsConnecting' = wsConnecting + 1
    /\ UNCHANGED <<storeVars, modalVars, wsOpen, connectionStatus, failures,
                   fetching, loaded, now, inbox, pos>>

\* ws.onclose of a socket that was open: the connection is lost.
WsOnClose ==
    /\ wsOpen > 0
    /\ wsOpen' = wsOpen - 1
    /\ connectionStatus' = "Disconnected"
    /\ reconnectTimers' = ScheduleReconnect(reconnectTimers)
    /\ UNCHANGED <<storeVars, modalVars, wsConnecting, failures, fetching,
                   loaded, now, inbox, pos>>

\* ws.onclose of a socket that never opened: the attempt failed; failures
\* counts the consecutive failed attempts, up to MaxFailures.
WsConnectFails ==
    /\ wsConnecting > 0
    /\ wsConnecting' = wsConnecting - 1
    /\ connectionStatus' = "Disconnected"
    /\ reconnectTimers' = ScheduleReconnect(reconnectTimers)
    /\ failures' = IF failures < MaxFailures THEN failures + 1 ELSE failures
    /\ UNCHANGED <<storeVars, modalVars, wsOpen, fetching, loaded, now, inbox,
                   pos>>

NextConn ==
    \/ ConnectWebSocket
    \/ WsOnOpen
    \/ WsOnClose
    \/ WsConnectFails
    \/ WsStart
    \/ Tick

\* The dashboard with a connection that may be lost and attempts that may
\* fail; the event loop fires every timer that is due.
SpecConn == Init /\ [][NextConn]_vars /\ WF_vars(ConnectWebSocket)

\* C14: every pending reconnect timer was set with the one fixed delay, and
\* whenever there is no socket, after any number of consecutive failed
\* attempts, a further attempt is eventually made.
ReconnectsForever ==
    /\ [](\A i \in DOMAIN reconnectTimers : reconnectTimers[i] = ReconnectDelay)
    /\ \A n \in 0..MaxFailures :
           [](wsConnecting = 0 /\ wsOpen = 0 /\ failures = n
                 => <>(wsConnecting > 0))

\* MaxFailures or more attempts in a row have failed and a further attempt is
\* under way.
RetryAfterFailures ==
    /\ failures = MaxFailures
    /\ wsConnecting > 0
    /\ connectionStatus = "Disconnected"

-----------------------------------------------------------------------------
\* The identifiers a start frame may carry: any string the server chooses.
EvictIds == TaskIds \cup ProtoKeys

\* A start frame and a later log or complete frame for the same identifier.
EvictRuns ==
    { <<s, u>> :
        <<s, u>> \in { run \in [type : {"start"}, task_id : EvictIds,
                                persona : Personas, message : {Undefined},
                                status : {Undefined}, result : {Undefined}]
                               \X UpdateEvents : run[1].task_id = run[2].task_id } }

\* The connection is open while the GET /tasks of init is still in flight; the
\* server sends the two frames and answers the request with [].
InitEvict ==
    /\ tasks = EmptyStore
    /\ grid = << >>
    /\ emptyState = FALSE
    /\ activeTaskId = Null
    /\ modalStatus = Null
    /\ consoleOutput = << >>
    /\ resultJson = Hidden
    /\ modalHidden = TRUE
    /\ closeTimers = 0
    /\ wsConnecting = 0
    /\ wsOpen = 1
    /\ reconnectTimers = << >>
    /\ connectionStatus = "Live Uplink"
    /\ failures = 0
    /\ fetching = 1
    /\ loaded = FALSE
    /\ now = 0
    /\ inbox \in EvictRuns
    /\ pos = 1

\* A pending GET /tasks is answered with the empty array.
EmptySnapshotLands ==
    /\ FetchTasksArray(<< >>)
    /\ UNCHANGED <<now, inbox, pos, connVars>>

NextEvict ==
    \/ Deliver
    \/ EmptySnapshotLands
    \/ Tick

SpecEvict == InitEvict /\ [][NextEvict]_vars

\* C15: a snapshot with no tasks leaves the store empty, and when the start
\* frame of an identifier has been applied and the store has been emptied
\* since, the log or complete frame for that identifier creates no record and
\* issues a GET /tasks.
EvictedIdReloads ==
    [][ /\ EmptySnapshotLands => tasks' = EmptyStore
        /\ (pos = 2 /\ tasks = EmptyStore /\ pos' = 3)
              => tasks' = EmptyStore /\ fetching' = fetching + 1 ]_vars

-----------------------------------------------------------------------------
MaxCloseTimers == 1

\* The line openTaskModal shows for a task without logs.
WaitingLine == "> Waiting for Uplink..."

\* openTaskModal(taskId) for a task that has a record: what it writes.
OpenTaskModalOn(taskId) ==
    /\ activeTaskId' = taskId
    /\ modalStatus' = ToUpperCase(tasks[taskId].status)
    /\ consoleOutput' = IF tasks[taskId].logs # << >>
                        THEN tasks[taskId].logs
                        ELSE <<WaitingLine>>
    /\ resultJson' = IF tasks[taskId].status \in Terminal
                     THEN tasks[taskId].result
                     ELSE Hidden
    /\ modalHidden' = FALSE
    /\ UNCHANGED <<storeVars, closeTimers, connVars, fetching, loaded, now>>

\* closeModal(): the timer that hides the modal is set.
SetCloseTimer ==
    /\ closeTimers' = closeTimers + 1
    /\ UNCHANGED <<storeVars, activeTaskId, modalStatus, consoleOutput,
                   resultJson, modalHidden, connVars, fetching, loaded, now>>

\* card.onclick: openTaskModal(taskId) for a card of the grid, when the modal
\* does not cover the grid or is fading out.
OpenTaskModal ==
    /\ modalHidden \/ closeTimers > 0
    /\ \E i \in 1..Len(grid) :
           grid[i].id \in DOMAIN tasks /\ OpenTaskModalOn(grid[i].id)
    /\ UNCHANGED <<inbox, pos>>

\* A click on the close button or on the backdrop of the modal.
CloseModal ==
    /\ ~modalHidden
    /\ closeTimers < MaxCloseTimers
    /\ SetCloseTimer
    /\ UNCHANGED <<inbox, pos>>

\* The callback of closeModal's timer.
CloseTimerFires ==
    /\ closeTimers > 0
    /\ closeTimers' = closeTimers - 1
    /\ modalHidden' = TRUE
    /\ activeTaskId' = Null
    /\ UNCHANGED <<storeVars, modalStatus, consoleOutput, resultJson, connVars,
                   fetching, loaded, now, inbox, pos>>

NextView ==
    \/ WsOnOpen
    \/ WsStart
    \/ WsLog
    \/ WsComplete
    \/ SnapshotLands
    \/ OpenTaskModal
    \/ CloseModal
    \/ CloseTimerFires

\* The dashboard with a user who opens and closes the detail view.
SpecView == Init /\ [][NextView]_vars

\* C16: while the detail view is open on a task that has a record, after every
\* handler the status it shows is the record's status and the log lines it
\* shows (the waiting line aside) are the record's logs.
ViewShowsRecord ==
    ( /\ activeTaskId \in DOMAIN tasks
      /\ ~modalHidden
      /\ closeTimers = 0 )
    => /\ modalStatus = ToUpperCase(tasks[activeTaskId].status)
       /\ SelectSeq(consoleOutput, LAMBDA line : line # WaitingLine)
             = tasks[activeTaskId].logs

-----------------------------------------------------------------------------
\* C21: the cards of the grid correspond one-to-one to the records of the
\* store: every identifier of the store has exactly one card, and every card
\* belongs to an identifier of the store.
CardsMatchRecords ==
    /\ \A id \in DOMAIN tasks :
           Cardinality({i \in 1..Len(grid) : grid[i].id = id}) = 1
    /\ \A i \in 1..Len(grid) : grid[i].id \in DOMAIN tasks

-----------------------------------------------------------------------------
\* C22: at every moment exactly one push connection exists in one of its
\* stages: open, connecting, or waiting on a pending reconnect timer; so a
\* close leaves one timer and a timer leaves one attempt, and they never
\* multiply.
OneConnection ==
    wsConnecting + wsOpen + Len(reconnectTimers) = 1

\* After MaxFailures or more failed attempts in a row the connection is waiting
\* on its reconnect timer, and there is no socket.
WaitingToReconnect ==
    /\ failures = MaxFailures
    /\ Len(reconnectTimers) = 1
    /\ wsConnecting = 0
    /\ wsOpen = 0

-----------------------------------------------------------------------------
MaxRequests == 3

\* The operator clicks a card; inbox records the operator's requests in order.
OperatorOpens ==
    /\ Len(inbox) < MaxRequests
    /\ modalHidden \/ closeTimers > 0
    /\ \E i \in 1..Len(grid) :
           grid[i].id \in DOMAIN tasks /\ OpenTaskModalOn(grid[i].id)
    /\ inbox' = Append(inbox, "open")
    /\ UNCHANGED pos

\* The operator clicks the close button or the backdrop.
OperatorCloses ==
    /\ Len(inbox) < MaxRequests
    /\ ~modalHidden
    /\ closeTimers < MaxCloseTimers
    /\ SetCloseTimer
    /\ inbox' = Append(inbox, "close")
    /\ UNCHANGED pos

NextReopen ==
    \/ WsOnOpen
    \/ WsStart
    \/ WsLog
    \/ WsComplete
    \/ OperatorOpens
    \/ OperatorCloses
    \/ CloseTimerFires

\* The dashboard with an operator whose requests are recorded.
SpecReopen == Init /\ [][NextReopen]_vars

\* C23: while the detail view is open, a step that is no request of the
\* operator hides it or changes activeTaskId only if the operator's last
\* request was a close, that is, one made after the view was last opened.
ViewOpenUntilClosed ==
    [][ ( /\ ~modalHidden
          /\ inbox' = inbox
          /\ modalHidden' \/ activeTaskId' # activeTaskId )
        => inbox[Len(inbox)] = "close" ]_vars

=============================================================================
